---- MODULE Spec2Model ----
(***************************************************************************)
(* RAGFlow -> knowledge-graph sync programs of the repository.             *)
(*                                                                         *)
(* Five entry points read the same Elasticsearch scroll API and deliver    *)
(* chunks to a graph sink:                                                 *)
(*   "bridge"   scripts/ragflow_to_graphiti.py          main()             *)
(*   "extract"  langflow/ragflow_to_graphiti.py         run_extraction()   *)
(*   "kgtask"   services/kg/graphrag-api/worker.py      sync_ragflow_to_kg *)
(*   "kgtool"   tools/ragflow_to_kg.py                  run_kg_sync()      *)
(*   "celery"   graphiti/server/graph_service/worker.py sync_ragflow       *)
(* The Graphiti /messages handler (routers/ingest.py add_messages) is the  *)
(* sink of "bridge" and "extract"; it is modelled by AddMessages.          *)
(*                                                                         *)
(* Further specifications of the same module:                              *)
(*   SpecTwoRuns    transform_to_messages run twice                        *)
(*   SpecRedeliver  one batch delivered twice to a deduplicating sink      *)
(*   SpecFactory    utils/model_factory.py ModelFactory.create_models      *)
(*   SpecTenants    the /user-created webhook and /messages requests       *)
(*                                                                         *)
(* Strings built with f-strings are modelled as tuples of their parts, so  *)
(* that two rendered strings are equal exactly when their parts are.       *)
(* A missing dictionary key is the marker Absent; Python None is NoneT     *)
(* (for values that are otherwise tuples) or Absent (otherwise strings).   *)
(***************************************************************************)
EXTENDS Integers, Sequences, FiniteSets, TLC

\* ------------------------------------------------------------------ bounds
\* most documents the selected index holds
MaxDocs == 3
\* most hits Elasticsearch returns in one page (the code asks for 50..1000)
MaxPage == 2
\* the batch sizes BATCH_SIZE is configured to: 1..MaxBatch (the code has 10)
MaxBatch == 2
\* clock readings of the two-run specification: 0..MaxClock
MaxClock == 1
\* most chunks each run of the two-run specification transforms
MaxRunDocs == 2

\* ------------------------------------------------------------- vocabulary
Absent == "<absent>"
NoneT == <<>>

Min(a, b) == IF a < b THEN a ELSE b

\* dict.get(key, default)
Get(d, key, default) == IF d[key] = Absent THEN default ELSE d[key]

\* An optional structured value (a dict, a rendered string): a dict entry
\* that is present or missing, an Optional argument or result that is a
\* value or None.
Some(v) == [given |-> TRUE, value |-> v]
Missing == [given |-> FALSE, value |-> <<>>]

\* dict.get(key, default) for such an entry
GetOr(entry, default) == IF entry.given THEN entry.value ELSE default

\* Python `x or y` on strings: x when x is truthy (non-empty), else y
PyOr(x, y) == IF x # "" THEN x ELSE y

\* The _source documents an index may hold.  Between them they cover: no
\* content at all, only the fallback field set, both fields set, a missing
\* content key, a doc_id shared between records, a missing doc_id.
SourceKinds ==
  { [content_with_weight |-> Absent, content |-> "",  doc_id |-> "d1",
     docnm_kwd |-> "n1",   create_time |-> Absent],
    [content_with_weight |-> "",     content |-> "B", doc_id |-> "d1",
     docnm_kwd |-> "n1",   create_time |-> "t7"],
    [content_with_weight |-> "A",    content |-> "B", doc_id |-> Absent,
     docnm_kwd |-> Absent, create_time |-> Absent] }

\* The names of the indices matching ragflow_*, and a name no index has.
IndexNames == {"ragflow_a", "ragflow_b"}
MissingIndex == "ragflow_x"

RECURSIVE NoDupSeqs(_, _)
NoDupSeqs(S, n) ==
  IF n = 0 THEN {<<>>}
  ELSE LET shorter == NoDupSeqs(S, n - 1)
       IN  shorter \cup
           { Append(s, x) : s \in { t \in shorter : Len(t) = n - 1 },
                            x \in S }

RECURSIVE SeqsUpTo(_, _)
SeqsUpTo(S, n) ==
  IF n = 0 THEN {<<>>}
  ELSE LET shorter == SeqsUpTo(S, n - 1)
       IN  shorter \cup
           { Append(s, x) : s \in { t \in shorter : Len(t) = n - 1 }, x \in S }

IsDupFree(s) == \A i, j \in 1..Len(s) : i # j => s[i] # s[j]

\* what es.indices.get_alias(index="ragflow_*") may list, in listing order
Listings == { s \in NoDupSeqs(IndexNames, Cardinality(IndexNames)) : IsDupFree(s) }

\* a hit as Elasticsearch returns it: {_id, _source}
Hit(k, src) == [id |-> k, source |-> src]

Programs == {"bridge", "extract", "kgtask", "kgtool", "celery"}

VARIABLES
  prog,            \* the entry point this run executes
  pc,              \* its position
  result,          \* how it ended: "running", or the return value / exit
  esIndices,       \* what get_alias lists (sequence of index names)
  argIndex,        \* the index_name argument / RAGFLOW_INDEX setting, or Absent
  esDocs,          \* the hits of the index being read, in scroll order
  esPos,           \* how many of them the cursor has returned
  esReqs,          \* the requests issued to Elasticsearch, in order, each
                   \* with what came back
  index_name,      \* the index the run resolved
  hits,            \* the page last fetched
  chunks,          \* bridge/celery: every hit extracted so far
  messages,        \* bridge: transform_to_messages' result
  idx,             \* loop index (batch offset, or position in hits/chunks)
  BATCH_SIZE,      \* bridge: configured batch size
  total_processed, \* extract/kgtask/kgtool: the code's own counter
  now,             \* datetime.utcnow() of this run
  graph,           \* episodes the Graphiti client has ingested (add_episode)
  sent,            \* history: the delivery calls issued, in order, each the
                   \* ids of the hits it carried, in payload order
  attempted,       \* history: delivery calls issued
  succeeded,       \* history: delivery calls the code logged as sent
  failed,          \* history: delivery calls the code logged as failed
  accepted,        \* history: records carried by the delivery calls the
                   \* sink accepted (2xx answer, or add_episode returned)
  lastStatus,      \* history: outcome of the latest delivery call and
                   \* whether the code counted it as a success
  logged,          \* the kinds of log lines written
  slept,           \* kgtask/kgtool: time.sleep(0.5) calls made
  client,          \* celery: the ZepGraphiti client: "none", "open", "closed"
  closes,          \* celery: client.close() calls made
  prevChunks,      \* two-run specification: input of the earlier run
  prevMessages,    \* two-run specification: its messages
  prevNow,         \* two-run specification: its clock reading
  episodes,        \* redelivery specification: the Episodes delivered twice
  graphAfterFirst, \* redelivery specification: the graph after the first
                   \* delivery
  type_definitions, \* ModelFactory.create_models: its argument
  models,          \* ModelFactory.create_models: its return value
  provisioned,     \* graph service: the partitions whose indices and
                   \* constraints the user-created webhook has built
  written,         \* graph service: Episodes written to each partition
  edge_type_map,   \* add_messages: request.edge_type_map
  parsed_edge_type_map, \* add_messages: the map it parsed
  response         \* add_messages: the HTTP status it answered with (0: none yet)

vars == <<prog, pc, result, esIndices, argIndex, esDocs, esPos, esReqs,
          index_name, hits, chunks, messages, idx, BATCH_SIZE,
          total_processed, now, graph, sent, attempted, succeeded, failed,
          accepted, lastStatus, logged, slept, client, closes, prevChunks,
          prevMessages, prevNow, episodes, graphAfterFirst,
          type_definitions, models, provisioned, written, edge_type_map,
          parsed_edge_type_map, response>>

esVars == <<esIndices, argIndex, esDocs>>
factoryVars == <<type_definitions, models>>
tenantVars == <<provisioned, written>>
requestVars == <<edge_type_map, parsed_edge_type_map, response>>
serviceVars == <<factoryVars, tenantVars, requestVars>>
runVars == <<prevChunks, prevMessages, prevNow, now, prog, BATCH_SIZE, episodes,
            graphAfterFirst, serviceVars>>
histVars == <<sent, attempted, succeeded, failed, accepted, lastStatus>>
clientVars == <<slept, client, closes>>

\* ---------------------------------------------------------- Elasticsearch
Range(s) == { s[i] : i \in 1..Len(s) }

\* es.indices.exists(index=name)
IndexExists(name) == name \in Range(esIndices)

\* The pages the cursor may return next: a non-empty run of the remaining
\* hits in scroll order, or the empty page once the index is exhausted.
EsPages ==
  IF esPos >= Len(esDocs) THEN {<<>>}
  ELSE { SubSeq(esDocs, esPos + 1, esPos + n) :
           n \in 1..Min(MaxPage, Len(esDocs) - esPos) }

\* the page fetches answered so far, as positions in esReqs
AnsweredFetches ==
  { k \in 1..Len(esReqs) : esReqs[k].ok /\ esReqs[k].op \in {"search", "scroll"} }

\* (a slip the code could have made: scroll_id is bound once, to the id of
\* the initial search, and never rebound)
ScrollIdOfSearch ==
  IF AnsweredFetches = {} THEN 0
  ELSE esReqs[CHOOSE k \in AnsweredFetches : \A j \in AnsweredFetches : k <= j].gave

\* scroll_id = result['_scroll_id'], rebound after every response: the id
\* the latest response gave
ScrollIdHeld ==
  IF AnsweredFetches = {} THEN 0
  ELSE esReqs[CHOOSE k \in AnsweredFetches : \A j \in AnsweredFetches : k >= j].gave

\* the scroll id a request passes (0: the request takes none)
ScrollIdUsed(op) == IF op = "scroll" THEN ScrollIdHeld ELSE 0

\* an entry of esReqs: the request with the scroll id it passed, and the
\* number of items it returned with the scroll id of the response (every
\* search and scroll response carries one of its own), or that it raised
Answered(op, n) ==
  [ op |-> op, ok |-> TRUE, got |-> n, used |-> ScrollIdUsed(op),
    gave |-> IF op \in {"search", "scroll"} THEN Len(esReqs) + 1 ELSE 0 ]
Raised(op) ==
  [ op |-> op, ok |-> FALSE, got |-> 0, used |-> ScrollIdUsed(op), gave |-> 0 ]

Exists(name) == Answered("exists", IF IndexExists(name) THEN 1 ELSE 0)

\* (a slip the code could have made: the loop never looks at the page)
MorePagesAlways(page) == TRUE

\* `while hits:`
MorePages(page) == page # <<>>

\* hit ids in the order Elasticsearch has returned them so far
Extracted == [k \in 1..esPos |-> esDocs[k].id]

\* ------------------------------------------------- transform_to_messages
\* (a slip the code could have made: the fallback field is never read)
ContentPrimaryOnly(source) == Get(source, "content_with_weight", "")

\* content = source.get('content_with_weight', '') or source.get('content', '')
ContentWithFallback(source) ==
  PyOr(Get(source, "content_with_weight", ""), Get(source, "content", ""))

\* doc_id = source.get('doc_id', 'unknown')
DocId(source) == Get(source, "doc_id", "unknown")

\* (a slip the code could have made: the id leaves the position out)
ChunkUuidNoOrdinal(source, i, t) == <<"ragflow_chunk", DocId(source)>>

\* (a slip the code could have made: the id is stamped with the clock
\* instead of the chunk's position)
ChunkUuidFromClock(source, i, t) == <<"ragflow_chunk", DocId(source), t>>

\* f"ragflow_chunk_{doc_id}_{i}"
ChunkUuid(source, i, t) == <<"ragflow_chunk", DocId(source), i>>

\* the message dict of lines 96-104, built for chunk number i (from 0) at time t
Message(chunk, i, t) ==
  [ uuid               |-> ChunkUuid(chunk.source, i, t),
    content            |-> ContentWithFallback(chunk.source),
    role_type          |-> "system",
    role               |-> "RAGFlow RAPTOR Chunk",
    name               |-> <<"Chunk", i + 1>>,
    timestamp          |-> <<"utc", t>>,
    source_description |-> <<"RAGFlow Document", DocId(chunk.source)>> ]

\* one pass of the for loop over enumerate(chunks): nothing for an empty
\* content, one message otherwise
TransformOne(chunk, i, t) ==
  IF ContentWithFallback(chunk.source) = "" THEN <<>>
  ELSE <<Message(chunk, i, t)>>

RECURSIVE TransformFrom(_, _, _)
TransformFrom(cs, i, t) ==
  IF i >= Len(cs) THEN <<>>
  ELSE TransformOne(cs[i + 1], i, t) \o TransformFrom(cs, i + 1, t)

transform_to_messages(cs, t) == TransformFrom(cs, 0, t)

\* ------------------------------------------------------ Graphiti /messages
\* episode_body = f'{m.role or ""}({m.role_type}): {m.content}'
EpisodeBody(m) == <<PyOr(Get(m, "role", ""), ""), m.role_type, m.content>>

\* the arguments add_messages passes to graphiti.add_episode for message m
EpisodeOf(group_id, m) ==
  [ uuid               |-> m.uuid,
    group_id           |-> group_id,
    name               |-> m.name,
    episode_body       |-> EpisodeBody(m),
    reference_time     |-> m.timestamp,
    source_description |-> m.source_description ]

\* add_messages: the for loop over request.messages, in request order; n is
\* the number of add_episode calls that return before one raises (all of
\* them when n = Len(msgs)).  The graph afterwards.
AddMessages(g, group_id, msgs, n) ==
  g \o [k \in 1..n |-> EpisodeOf(group_id, msgs[k])]

\* the HTTP status add_messages answers with: 202, or 500 when add_episode raised
AddMessagesStatus(msgs, n) == IF n = Len(msgs) THEN 202 ELSE 500

\* response.raise_for_status(): raises for 4xx and 5xx
RaisesForStatus(status) == status >= 400

\* ------------------------------------------------------------------- Init
\* GROUP_ID of the script / the task's group_id default
GroupId(p) == IF p = "extract" THEN "equilibria_structural" ELSE "equilibria_whitepaper"

\* index_name / INDEX_NAME as each entry point can be given it: the two
\* scripts always have a name (RAGFLOW_INDEX has a default), the kg task's
\* argument defaults to None, the other two take no index at all
ArgIndexOf(p) ==
  CASE p \in {"extract", "kgtool"} -> {"ragflow_a", MissingIndex}
    [] p = "kgtask"                -> {"ragflow_a", MissingIndex, Absent}
    [] OTHER                       -> {Absent}

\* the index the run is going to read, Absent when there is none
TargetIndex(arg, listing) ==
  IF arg = Absent THEN (IF listing = <<>> THEN Absent ELSE listing[1])
  ELSE IF arg \in Range(listing) THEN arg ELSE Absent

DocLists ==
  { [k \in 1..Len(s) |-> Hit(k, s[k])] : s \in SeqsUpTo(SourceKinds, MaxDocs) }

FirstPc(p) ==
  CASE p = "bridge"  -> "connect"
    [] p = "extract" -> "exists"
    [] p = "kgtask"  -> "resolve"
    [] p = "kgtool"  -> "exists"
    [] OTHER         -> "resolve"

InitRun ==
  /\ prog \in Programs
  /\ pc = FirstPc(prog)
  /\ result = "running"
  /\ esIndices \in Listings
  /\ argIndex \in ArgIndexOf(prog)
  /\ esDocs \in DocLists
  /\ (TargetIndex(argIndex, esIndices) = Absent => esDocs = <<>>)
  /\ esPos = 0
  /\ esReqs = <<>>
  /\ index_name = argIndex
  /\ hits = <<>>
  /\ chunks = <<>>
  /\ messages = <<>>
  /\ idx = 0
  /\ BATCH_SIZE \in (IF prog = "bridge" THEN 1..MaxBatch ELSE {1})
  /\ total_processed = 0
  /\ graph = <<>>
  /\ sent = <<>>
  /\ attempted = 0
  /\ succeeded = 0
  /\ accepted = 0
  /\ failed = 0
  /\ lastStatus = [kind |-> "none", code |-> 0, counted |-> FALSE]
  /\ logged = {}
  /\ slept = 0
  /\ client = "none"
  /\ closes = 0

\* Python None as the default of a field
PyNone == "None"

\* the tenants (user ids, used as partition names) of the graph service
Tenants == {"u1", "u2", "u3"}

\* the graph service has been asked nothing yet
ServiceIdle ==
  /\ type_definitions = Missing
  /\ models = Missing
  /\ provisioned = {}
  /\ written = [t \in Tenants |-> 0]
  /\ edge_type_map = Missing
  /\ parsed_edge_type_map = Missing
  /\ response = 0

Init ==
  /\ InitRun
  /\ ServiceIdle
  /\ now = 0
  /\ prevChunks = <<>>
  /\ prevMessages = <<>>
  /\ prevNow = 0
  /\ episodes = <<>>
  /\ graphAfterFirst = <<>>

\* the run ends with outcome r, having written log lines ls
Finish(r, ls) ==
  /\ pc' = "done"
  /\ result' = r
  /\ logged' = logged \cup ls

\* outcomes of a delivery call: the sink answered with an HTTP status, the
\* call raised before any answer (connection error, timeout, an exception of
\* add_episode), or add_episode returned
Http(status) == [kind |-> "http", code |-> status]
NoResponse == [kind |-> "error", code |-> 0]
Added == [kind |-> "added", code |-> 0]

\* the sink took the call: a 2xx answer, or add_episode returned
Accepts(outcome) ==
  \/ outcome.kind = "http" /\ outcome.code \in 200..299
  \/ outcome.kind = "added"

\* one delivery call was issued for the hits `ids`; its outcome was
\* `outcome`, and the code logged it as sent (ok) or as an error
Delivered(ids, ok, outcome) ==
  /\ sent' = Append(sent, ids)
  /\ attempted' = attempted + 1
  /\ succeeded' = succeeded + (IF ok THEN 1 ELSE 0)
  /\ failed' = failed + (IF ok THEN 0 ELSE 1)
  /\ accepted' = accepted + (IF Accepts(outcome) THEN Len(ids) ELSE 0)
  /\ lastStatus' = [kind |-> outcome.kind, code |-> outcome.code, counted |-> ok]

\* ------------------------------------ scripts/ragflow_to_graphiti.py main()
\* connect_to_elasticsearch: es.ping() false raises, main exits 1
Bridge_Connect ==
  /\ prog = "bridge" /\ pc = "connect"
  /\ \E up \in BOOLEAN :
       /\ esReqs' = Append(esReqs, IF up THEN Answered("ping", 1) ELSE Raised("ping"))
       /\ IF up THEN pc' = "find" /\ UNCHANGED <<result, logged>>
          ELSE Finish("exit1", {"fatal"})
  /\ UNCHANGED <<esVars, runVars, clientVars, histVars, esPos, index_name, hits, chunks,
                 messages, idx, total_processed, graph>>

\* es.indices.get_alias(index="ragflow_*") answering (up) or raising
GetAlias(up) ==
  IF up THEN Answered("get_alias", Len(esIndices)) ELSE Raised("get_alias")

\* the index find_ragflow_index picks from the listing
FirstListed(indices) == indices[1]

\* find_ragflow_index: raises when the listing is empty
Bridge_FindIndex ==
  /\ prog = "bridge" /\ pc = "find"
  /\ \E up \in BOOLEAN :
       /\ esReqs' = Append(esReqs, GetAlias(up))
       /\ IF up /\ esIndices # <<>>
          THEN /\ index_name' = FirstListed(esIndices)
               /\ pc' = "search"
               /\ UNCHANGED <<result, logged>>
          ELSE /\ Finish("exit1", {"fatal"})
               /\ UNCHANGED index_name
  /\ UNCHANGED <<esVars, runVars, clientVars, histVars, esPos, hits, chunks, messages,
                 idx, total_processed, graph>>

\* extract_chunks, lines 55-64: the initial search
Bridge_Search ==
  /\ prog = "bridge" /\ pc = "search"
  /\ \/ \E page \in EsPages :
          /\ esReqs' = Append(esReqs, Answered("search", Len(page)))
          /\ hits' = page
          /\ chunks' = chunks \o page
          /\ esPos' = esPos + Len(page)
          /\ pc' = "scroll"
          /\ UNCHANGED <<result, logged>>
     \/ /\ Finish("exit1", {"fatal"})
        /\ esReqs' = Append(esReqs, Raised("search"))
        /\ UNCHANGED <<hits, chunks, esPos>>
  /\ UNCHANGED <<esVars, runVars, clientVars, histVars, index_name, messages, idx,
                 total_processed, graph>>

\* extract_chunks, lines 70-77: one pass of `while hits`
Bridge_Scroll ==
  /\ prog = "bridge" /\ pc = "scroll" /\ MorePages(hits)
  /\ \/ \E page \in EsPages :
          /\ esReqs' = Append(esReqs, Answered("scroll", Len(page)))
          /\ hits' = page
          /\ chunks' = chunks \o page
          /\ esPos' = esPos + Len(page)
          /\ UNCHANGED <<pc, result, logged>>
     \/ /\ Finish("exit1", {"fatal"})
        /\ esReqs' = Append(esReqs, Raised("scroll"))
        /\ UNCHANGED <<hits, chunks, esPos>>
  /\ UNCHANGED <<esVars, runVars, clientVars, histVars, index_name, messages, idx,
                 total_processed, graph>>

\* main, lines 149-156: extract_chunks returns; no chunks exits 1, otherwise
\* transform_to_messages runs
Bridge_Transform ==
  /\ prog = "bridge" /\ pc = "scroll" /\ ~MorePages(hits)
  /\ IF chunks = <<>>
     THEN /\ Finish("exit1", {"no_chunks"})
          /\ UNCHANGED <<messages, idx>>
     ELSE /\ messages' = transform_to_messages(chunks, now)
          /\ idx' = 0
          /\ pc' = "send"
          /\ UNCHANGED <<result, logged>>
  /\ UNCHANGED <<esVars, runVars, clientVars, histVars, esPos, esReqs, index_name, hits,
                 chunks, total_processed, graph>>

\* (a slip the code could have made: the slice is taken back to front)
BatchAtReversed(msgs, i, size) ==
  LET hi == Min(i + size, Len(msgs))
  IN  [k \in 1..(hi - i) |-> msgs[hi + 1 - k]]

\* batch = messages[i:i+BATCH_SIZE]
BatchAt(msgs, i, size) == SubSeq(msgs, i + 1, Min(i + size, Len(msgs)))

\* the ids of the hits a list of bridge messages was built from (the name,
\* "Chunk <i+1>", carries the chunk's position)
BridgeHitIds(msgs) == [k \in 1..Len(msgs) |-> chunks[msgs[k].name[2]].id]

\* what send_to_graphiti does after a batch's POST failed: sys.exit(1)
Bridge_BatchFailed ==
  /\ Finish("exit1", {"batch_error"})
  /\ UNCHANGED idx

\* send_to_graphiti, lines 117-132: one pass of the for loop
Bridge_SendBatch ==
  /\ prog = "bridge" /\ pc = "send" /\ idx < Len(messages)
  /\ LET batch == BatchAt(messages, idx, BATCH_SIZE)
     IN  \/ \* requests.post raises (connection error, timeout)
            /\ Delivered(BridgeHitIds(batch), FALSE, NoResponse)
            /\ Bridge_BatchFailed
            /\ UNCHANGED graph
         \/ \E n \in 0..Len(batch) :
              LET status == AddMessagesStatus(batch, n)
              IN  /\ graph' = AddMessages(graph, GroupId(prog), batch, n)
                  /\ Delivered(BridgeHitIds(batch), ~RaisesForStatus(status), Http(status))
                  /\ IF RaisesForStatus(status)
                     THEN Bridge_BatchFailed
                     ELSE /\ idx' = idx + BATCH_SIZE
                          /\ UNCHANGED <<pc, result, logged>>
  /\ UNCHANGED <<esVars, runVars, clientVars, esPos, esReqs, index_name, hits, chunks,
                 messages, total_processed>>

\* send_to_graphiti returns and main prints the summary
Bridge_Done ==
  /\ prog = "bridge" /\ pc = "send" /\ idx >= Len(messages)
  /\ Finish("exit0", {"all_sent", "completed"})
  /\ UNCHANGED <<esVars, runVars, clientVars, histVars, esPos, esReqs, index_name, hits,
                 chunks, messages, idx, total_processed, graph>>

Bridge ==
  \/ Bridge_Connect
  \/ Bridge_FindIndex
  \/ Bridge_Search
  \/ Bridge_Scroll
  \/ Bridge_Transform
  \/ Bridge_SendBatch
  \/ Bridge_Done

\* --------------------------- langflow/ragflow_to_graphiti.py run_extraction
\* content = hit['_source'].get('content_with_weight', '')
PrimaryContent(source) == Get(source, "content_with_weight", "")

\* the message dict of lines 40-45: no uuid, no role_type, no source_description
ExtractMessage(hit) ==
  [ uuid               |-> NoneT,
    content            |-> PrimaryContent(hit.source),
    role_type          |-> Absent,
    role               |-> "system",
    name               |-> "RAGFlow",
    timestamp          |-> Get(hit.source, "create_time", Absent),
    source_description |-> NoneT ]

\* the hits of a page the for loop of lines 37-45 builds a message from
ExtractKept(page) == SelectSeq(page, LAMBDA h : PrimaryContent(h.source) # "")

ExtractMessages(page) ==
  LET kept == ExtractKept(page)
  IN  [k \in 1..Len(kept) |-> ExtractMessage(kept[k])]

HitIds(page) == [k \in 1..Len(page) |-> page[k].id]

\* es.indices.exists: a missing index prints an error and returns; an
\* exception here is caught nowhere
Extract_Exists ==
  /\ prog = "extract" /\ pc = "exists"
  /\ \/ /\ esReqs' = Append(esReqs, Exists(index_name))
        /\ IF IndexExists(index_name)
           THEN pc' = "search" /\ UNCHANGED <<result, logged>>
           ELSE Finish("None", {"index_missing"})
     \/ /\ esReqs' = Append(esReqs, Raised("exists"))
        /\ Finish("raised", {})
  /\ UNCHANGED <<esVars, runVars, clientVars, histVars, esPos, index_name,
                 hits, chunks, messages, idx, total_processed, graph>>

\* lines 29-33: the initial search
Extract_Search ==
  /\ prog = "extract" /\ pc = "search"
  /\ \/ \E page \in EsPages :
          /\ esReqs' = Append(esReqs, Answered("search", Len(page)))
          /\ hits' = page
          /\ esPos' = esPos + Len(page)
          /\ pc' = "page"
          /\ UNCHANGED <<result, logged>>
     \/ /\ Finish("raised", {})
        /\ esReqs' = Append(esReqs, Raised("search"))
        /\ UNCHANGED <<hits, esPos>>
  /\ UNCHANGED <<esVars, runVars, clientVars, histVars, index_name, chunks,
                 messages, idx, total_processed, graph>>

\* lines 36-61: the messages of one page and their POST
Extract_Deliver ==
  /\ prog = "extract" /\ pc = "page" /\ MorePages(hits)
  /\ messages' = ExtractMessages(hits)
  /\ pc' = "next"
  /\ IF messages' = <<>>
     THEN UNCHANGED <<histVars, graph, total_processed, logged>>
     ELSE LET ids == HitIds(ExtractKept(hits))
          IN  \/ \* requests.post raises
                 /\ Delivered(ids, FALSE, NoResponse)
                 /\ logged' = logged \cup {"batch_error"}
                 /\ UNCHANGED <<graph, total_processed>>
              \/ \E n \in 0..Len(messages') :
                   LET status == AddMessagesStatus(messages', n)
                   IN  /\ graph' = AddMessages(graph, GroupId(prog), messages', n)
                       /\ Delivered(ids, ~RaisesForStatus(status), Http(status))
                       /\ IF RaisesForStatus(status)
                          THEN /\ logged' = logged \cup {"batch_error"}
                               /\ UNCHANGED total_processed
                          ELSE /\ total_processed' = total_processed + Len(messages')
                               /\ UNCHANGED logged
  /\ UNCHANGED <<esVars, runVars, clientVars, esPos, esReqs, index_name, hits,
                 chunks, idx, result>>

\* lines 64-66: the next page; an exception here is caught nowhere
Extract_Scroll ==
  /\ prog = "extract" /\ pc = "next"
  /\ \/ \E page \in EsPages :
          /\ esReqs' = Append(esReqs, Answered("scroll", Len(page)))
          /\ hits' = page
          /\ esPos' = esPos + Len(page)
          /\ pc' = "page"
          /\ UNCHANGED <<result, logged>>
     \/ /\ Finish("raised", {})
        /\ esReqs' = Append(esReqs, Raised("scroll"))
        /\ UNCHANGED <<hits, esPos>>
  /\ UNCHANGED <<esVars, runVars, clientVars, histVars, index_name, chunks,
                 messages, idx, total_processed, graph>>

\* line 68: `while hits` ends, the total is printed
Extract_Done ==
  /\ prog = "extract" /\ pc = "page" /\ ~MorePages(hits)
  /\ Finish("None", {"completed"})
  /\ UNCHANGED <<esVars, runVars, clientVars, histVars, esPos, esReqs,
                 index_name, hits, chunks, messages, idx, total_processed, graph>>

Extract ==
  \/ Extract_Exists
  \/ Extract_Search
  \/ Extract_Deliver
  \/ Extract_Scroll
  \/ Extract_Done

\* ------------------------- services/kg/graphrag-api/worker.py sync_ragflow_to_kg
\* what the KG API may answer a POST with
KgStatuses == {200, 202, 500}

\* (a slip the code could have made: the sleep sits in the success branch)
ThrottledOnSuccess(n, counted) == IF counted THEN n + 1 ELSE n

\* time.sleep(0.5) after the try block of a delivery, whether it was
\* counted or not: the sleeps made so far
Throttled(n, counted) == n + 1

\* the `text` of the payload of lines 60-67
KgTaskContent(source) == ContentWithFallback(source)

\* line 71: the answer that counts as processed
KgTaskCounts(status) == status = 200

\* lines 33-43: no index_name argument takes the first index get_alias lists
KgTask_Resolve ==
  /\ prog = "kgtask" /\ pc = "resolve"
  /\ IF index_name # Absent
     THEN /\ pc' = "search"
          /\ UNCHANGED <<esReqs, index_name, result, logged>>
     ELSE \E up \in BOOLEAN :
            /\ esReqs' = Append(esReqs, GetAlias(up))
            /\ IF ~up
               THEN Finish("False", {"failed"}) /\ UNCHANGED index_name
               ELSE IF esIndices = <<>>
               THEN Finish("False", {"no_indices"}) /\ UNCHANGED index_name
               ELSE /\ index_name' = FirstListed(esIndices)
                    /\ pc' = "search"
                    /\ UNCHANGED <<result, logged>>
  /\ UNCHANGED <<esVars, runVars, clientVars, histVars, esPos, hits, chunks,
                 messages, idx, total_processed, graph>>

\* lines 46-51: the initial search; Elasticsearch refuses an index that does
\* not exist, and any exception ends the task with False
KgTask_Search ==
  /\ prog = "kgtask" /\ pc = "search"
  /\ \/ /\ IndexExists(index_name)
        /\ \E page \in EsPages :
             /\ esReqs' = Append(esReqs, Answered("search", Len(page)))
             /\ hits' = page
             /\ esPos' = esPos + Len(page)
             /\ idx' = 0
             /\ pc' = "page"
             /\ UNCHANGED <<result, logged>>
     \/ /\ Finish("False", {"failed"})
        /\ esReqs' = Append(esReqs, Raised("search"))
        /\ UNCHANGED <<hits, esPos, idx>>
  /\ UNCHANGED <<esVars, runVars, clientVars, histVars, index_name, chunks,
                 messages, total_processed, graph>>

\* lines 54-78: one pass of `for hit in hits`
KgTask_Record ==
  /\ prog = "kgtask" /\ pc = "page" /\ idx < Len(hits)
  /\ LET hit == hits[idx + 1]
     IN  IF KgTaskContent(hit.source) = ""
         THEN UNCHANGED <<histVars, total_processed, logged, slept>>
         ELSE /\ \/ \* requests.post raises
                    /\ Delivered(<<hit.id>>, FALSE, NoResponse)
                    /\ slept' = Throttled(slept, FALSE)
                    /\ logged' = logged \cup {"post_failed"}
                    /\ UNCHANGED total_processed
                 \/ \E status \in KgStatuses :
                      /\ Delivered(<<hit.id>>, KgTaskCounts(status), Http(status))
                      /\ slept' = Throttled(slept, KgTaskCounts(status))
                      /\ IF KgTaskCounts(status)
                         THEN /\ total_processed' = total_processed + 1
                              /\ UNCHANGED logged
                         ELSE /\ logged' = logged \cup {"kg_api_error"}
                              /\ UNCHANGED total_processed
  /\ idx' = idx + 1
  /\ UNCHANGED <<esVars, runVars, client, closes, esPos, esReqs, index_name,
                 hits, chunks, messages, graph, pc, result>>

\* lines 81-83: the next page; an exception ends the task with False
KgTask_Scroll ==
  /\ prog = "kgtask" /\ pc = "page" /\ MorePages(hits) /\ idx >= Len(hits)
  /\ \/ \E page \in EsPages :
          /\ esReqs' = Append(esReqs, Answered("scroll", Len(page)))
          /\ hits' = page
          /\ esPos' = esPos + Len(page)
          /\ idx' = 0
          /\ UNCHANGED <<pc, result, logged>>
     \/ /\ Finish("False", {"failed"})
        /\ esReqs' = Append(esReqs, Raised("scroll"))
        /\ UNCHANGED <<hits, esPos, idx>>
  /\ UNCHANGED <<esVars, runVars, clientVars, histVars, index_name, chunks,
                 messages, total_processed, graph>>

\* lines 85-86: `while hits` ends
KgTask_Done ==
  /\ prog = "kgtask" /\ pc = "page" /\ ~MorePages(hits)
  /\ Finish("True", {"completed"})
  /\ UNCHANGED <<esVars, runVars, clientVars, histVars, esPos, esReqs,
                 index_name, hits, chunks, messages, idx, total_processed, graph>>

KgTask ==
  \/ KgTask_Resolve
  \/ KgTask_Search
  \/ KgTask_Record
  \/ KgTask_Scroll
  \/ KgTask_Done

\* ------------------------------------------ tools/ragflow_to_kg.py run_kg_sync
\* content = source.get('content_with_weight', '')
KgToolContent(source) == Get(source, "content_with_weight", "")

\* line 69: the answer that counts as processed
KgToolCounts(status) == status = 200

\* lines 21-28: the index must exist; an exception is logged and the
\* function returns
KgTool_Exists ==
  /\ prog = "kgtool" /\ pc = "exists"
  /\ \/ /\ esReqs' = Append(esReqs, Exists(index_name))
        /\ IF IndexExists(index_name)
           THEN pc' = "search" /\ UNCHANGED <<result, logged>>
           ELSE Finish("None", {"index_missing"})
     \/ /\ esReqs' = Append(esReqs, Raised("exists"))
        /\ Finish("None", {"connect_failed"})
  /\ UNCHANGED <<esVars, runVars, clientVars, histVars, esPos, index_name,
                 hits, chunks, messages, idx, total_processed, graph>>

\* lines 38-46: the initial search; an exception is logged and the function
\* returns
KgTool_Search ==
  /\ prog = "kgtool" /\ pc = "search"
  /\ \/ \E page \in EsPages :
          /\ esReqs' = Append(esReqs, Answered("search", Len(page)))
          /\ hits' = page
          /\ esPos' = esPos + Len(page)
          /\ idx' = 0
          /\ pc' = "page"
          /\ UNCHANGED <<result, logged>>
     \/ /\ Finish("None", {"search_failed"})
        /\ esReqs' = Append(esReqs, Raised("search"))
        /\ UNCHANGED <<hits, esPos, idx>>
  /\ UNCHANGED <<esVars, runVars, clientVars, histVars, index_name, chunks,
                 messages, total_processed, graph>>

\* lines 49-78: one pass of `for hit in hits`
KgTool_Record ==
  /\ prog = "kgtool" /\ pc = "page" /\ idx < Len(hits)
  /\ LET hit == hits[idx + 1]
     IN  IF KgToolContent(hit.source) = ""
         THEN UNCHANGED <<histVars, total_processed, logged, slept>>
         ELSE /\ \/ \* requests.post raises
                    /\ Delivered(<<hit.id>>, FALSE, NoResponse)
                    /\ slept' = Throttled(slept, FALSE)
                    /\ logged' = logged \cup {"post_failed"}
                    /\ UNCHANGED total_processed
                 \/ \E status \in KgStatuses :
                      /\ Delivered(<<hit.id>>, KgToolCounts(status), Http(status))
                      /\ slept' = Throttled(slept, KgToolCounts(status))
                      /\ IF KgToolCounts(status)
                         THEN /\ total_processed' = total_processed + 1
                              /\ logged' = logged \cup {"synced"}
                         ELSE /\ logged' = logged \cup {"kg_api_error"}
                              /\ UNCHANGED total_processed
  /\ idx' = idx + 1
  /\ UNCHANGED <<esVars, runVars, client, closes, esPos, esReqs, index_name,
                 hits, chunks, messages, graph, pc, result>>

\* how run_kg_sync ends after es.scroll raised: `break` leaves the while
\* loop, and line 89 logs the sync as complete
KgTool_ScrollFailed == Finish("None", {"scroll_error", "completed"})

\* lines 81-87: the next page
KgTool_Scroll ==
  /\ prog = "kgtool" /\ pc = "page" /\ MorePages(hits) /\ idx >= Len(hits)
  /\ \/ \E page \in EsPages :
          /\ esReqs' = Append(esReqs, Answered("scroll", Len(page)))
          /\ hits' = page
          /\ esPos' = esPos + Len(page)
          /\ idx' = 0
          /\ UNCHANGED <<pc, result, logged>>
     \/ /\ KgTool_ScrollFailed
        /\ esReqs' = Append(esReqs, Raised("scroll"))
        /\ UNCHANGED <<hits, esPos, idx>>
  /\ UNCHANGED <<esVars, runVars, clientVars, histVars, index_name, chunks,
                 messages, total_processed, graph>>

\* line 89: `while hits` ends
KgTool_Done ==
  /\ prog = "kgtool" /\ pc = "page" /\ ~MorePages(hits)
  /\ Finish("None", {"completed"})
  /\ UNCHANGED <<esVars, runVars, clientVars, histVars, esPos, esReqs,
                 index_name, hits, chunks, messages, idx, total_processed, graph>>

KgTool ==
  \/ KgTool_Exists
  \/ KgTool_Search
  \/ KgTool_Record
  \/ KgTool_Scroll
  \/ KgTool_Done

\* ------------------------------------- graph_service/worker.py sync_ragflow
\* the arguments of client.add_episode, lines 95-102, for chunk number i
\* (from 0) at time t: no uuid is passed
CeleryEpisode(group_id, chunk, i, t) ==
  [ uuid               |-> NoneT,
    group_id           |-> group_id,
    name               |-> <<"Chunk", i + 1>>,
    episode_body       |-> <<"RAGFlow RAPTOR Chunk", ContentWithFallback(chunk.source)>>,
    reference_time     |-> <<"utc", t>>,
    source_description |-> <<"RAGFlow Document", DocId(chunk.source)>> ]

\* the same ending without the finally block
Celery_EpisodeFailedUnclosed ==
  /\ UNCHANGED <<client, closes>>
  /\ Finish("False", {"failed"})

\* how sync_ragflow ends after add_episode raised: the finally block closes
\* the client, the exception leaves asyncio.run and the task returns False
Celery_EpisodeFailed ==
  /\ client' = "closed"
  /\ closes' = closes + 1
  /\ Finish("False", {"failed"})

\* lines 36-44: the first index get_alias lists
Celery_Resolve ==
  /\ prog = "celery" /\ pc = "resolve"
  /\ \E up \in BOOLEAN :
       /\ esReqs' = Append(esReqs, GetAlias(up))
       /\ IF ~up
          THEN Finish("False", {"failed"}) /\ UNCHANGED index_name
          ELSE IF esIndices = <<>>
          THEN Finish("False", {"no_indices"}) /\ UNCHANGED index_name
          ELSE /\ index_name' = FirstListed(esIndices)
               /\ pc' = "search"
               /\ UNCHANGED <<result, logged>>
  /\ UNCHANGED <<esVars, runVars, clientVars, histVars, esPos, hits, chunks,
                 messages, idx, total_processed, graph>>

\* lines 47-51: the initial search
Celery_Search ==
  /\ prog = "celery" /\ pc = "search"
  /\ \/ \E page \in EsPages :
          /\ esReqs' = Append(esReqs, Answered("search", Len(page)))
          /\ hits' = page
          /\ chunks' = page
          /\ esPos' = esPos + Len(page)
          /\ pc' = "scroll"
          /\ UNCHANGED <<result, logged>>
     \/ /\ Finish("False", {"failed"})
        /\ esReqs' = Append(esReqs, Raised("search"))
        /\ UNCHANGED <<hits, chunks, esPos>>
  /\ UNCHANGED <<esVars, runVars, clientVars, histVars, index_name, messages,
                 idx, total_processed, graph>>

\* lines 53-58: one pass of `while hits`
Celery_Scroll ==
  /\ prog = "celery" /\ pc = "scroll" /\ MorePages(hits)
  /\ \/ \E page \in EsPages :
          /\ esReqs' = Append(esReqs, Answered("scroll", Len(page)))
          /\ hits' = page
          /\ chunks' = chunks \o page
          /\ esPos' = esPos + Len(page)
          /\ UNCHANGED <<pc, result, logged>>
     \/ /\ Finish("False", {"failed"})
        /\ esReqs' = Append(esReqs, Raised("scroll"))
        /\ UNCHANGED <<hits, chunks, esPos>>
  /\ UNCHANGED <<esVars, runVars, clientVars, histVars, index_name, messages,
                 idx, total_processed, graph>>

\* lines 63-84: process_ingestion builds the LLM client, the driver and the
\* Graphiti client; an exception here is before the try block
Celery_OpenClient ==
  /\ prog = "celery" /\ pc = "scroll" /\ ~MorePages(hits)
  /\ \/ /\ client' = "open"
        /\ idx' = 0
        /\ pc' = "ingest"
        /\ UNCHANGED <<result, logged>>
     \/ /\ Finish("False", {"failed"})
        /\ UNCHANGED <<client, idx>>
  /\ UNCHANGED <<esVars, runVars, histVars, slept, closes, esPos, esReqs,
                 index_name, hits, chunks, messages, total_processed, graph>>

\* lines 87-102: one pass of the for loop over enumerate(chunks)
Celery_Chunk ==
  /\ prog = "celery" /\ pc = "ingest" /\ idx < Len(chunks)
  /\ LET chunk == chunks[idx + 1]
     IN  IF ContentWithFallback(chunk.source) = ""
         THEN /\ idx' = idx + 1
              /\ UNCHANGED <<histVars, graph, client, closes, pc, result, logged>>
         ELSE \/ /\ graph' = Append(graph, CeleryEpisode(GroupId(prog), chunk, idx, now))
                 /\ Delivered(<<chunk.id>>, TRUE, Added)
                 /\ idx' = idx + 1
                 /\ UNCHANGED <<client, closes, pc, result, logged>>
              \/ \* add_episode raises
                 /\ Delivered(<<chunk.id>>, FALSE, NoResponse)
                 /\ Celery_EpisodeFailed
                 /\ UNCHANGED <<graph, idx>>
  /\ UNCHANGED <<esVars, runVars, slept, esPos, esReqs, index_name, hits,
                 chunks, messages, total_processed>>

\* lines 103-108: the loop ends, the finally block closes the client
Celery_Done ==
  /\ prog = "celery" /\ pc = "ingest" /\ idx >= Len(chunks)
  /\ client' = "closed"
  /\ closes' = closes + 1
  /\ Finish("True", {"completed"})
  /\ UNCHANGED <<esVars, runVars, histVars, slept, esPos, esReqs, index_name,
                 hits, chunks, messages, idx, total_processed, graph>>

Celery ==
  \/ Celery_Resolve
  \/ Celery_Search
  \/ Celery_Scroll
  \/ Celery_OpenClient
  \/ Celery_Chunk
  \/ Celery_Done

Next ==
  \/ Bridge
  \/ Extract
  \/ KgTask
  \/ KgTool
  \/ Celery

Spec == Init /\ [][Next]_vars

\* ------------------------------------------------- two runs of the transformer
\* A further document: the primary field set, a doc_id shared with others.
RunSourceKinds ==
  SourceKinds \cup
  { [content_with_weight |-> "C", content |-> Absent, doc_id |-> "d1",
     docnm_kwd |-> "n1", create_time |-> Absent] }

RunDocLists ==
  { [k \in 1..Len(s) |-> Hit(k, s[k])] : s \in SeqsUpTo(RunSourceKinds, MaxRunDocs) }

\* Two runs of transform_to_messages, each over its own extracted chunks
\* and at its own time.
InitTwoRuns ==
  /\ prog = "bridge"
  /\ pc = "rerun"
  /\ result = "running"
  /\ esIndices = <<"ragflow_a">>
  /\ argIndex = Absent
  /\ esDocs = <<>>
  /\ esPos = 0
  /\ esReqs = <<>>
  /\ index_name = "ragflow_a"
  /\ hits = <<>>
  /\ chunks \in RunDocLists
  /\ prevChunks \in RunDocLists
  /\ now \in 0..MaxClock
  /\ prevNow \in 0..MaxClock
  /\ messages = <<>>
  /\ prevMessages = <<>>
  /\ idx = 0
  /\ BATCH_SIZE = 1
  /\ total_processed = 0
  /\ graph = <<>>
  /\ sent = <<>>
  /\ attempted = 0
  /\ succeeded = 0
  /\ accepted = 0
  /\ failed = 0
  /\ lastStatus = [kind |-> "none", code |-> 0, counted |-> FALSE]
  /\ logged = {}
  /\ slept = 0
  /\ client = "none"
  /\ closes = 0
  /\ episodes = <<>>
  /\ graphAfterFirst = <<>>
  /\ ServiceIdle

TwoRuns_Transform ==
  /\ pc = "rerun"
  /\ prevMessages' = transform_to_messages(prevChunks, prevNow)
  /\ messages' = transform_to_messages(chunks, now)
  /\ pc' = "done"
  /\ UNCHANGED <<esVars, clientVars, histVars, prog, result, esPos, esReqs,
                 index_name, hits, chunks, idx, BATCH_SIZE, total_processed,
                 now, graph, logged, prevChunks, prevNow, episodes,
                 graphAfterFirst, serviceVars>>

NextTwoRuns == TwoRuns_Transform

SpecTwoRuns == InitTwoRuns /\ [][NextTwoRuns]_vars

\* ======================================================================
\* Properties
\* ======================================================================
RECURSIVE Flatten(_)
Flatten(ss) == IF ss = <<>> THEN <<>> ELSE Head(ss) \o Flatten(Tail(ss))

\* ids of the hits handed to the sink so far, in the order they were handed
Handed == Flatten(sent)

\* a record has content: its primary or its fallback field is a non-empty string
HasContent(source) ==
  \/ source.content_with_weight \notin {Absent, ""}
  \/ source.content \notin {Absent, ""}

WithContent(cs) == SelectSeq(cs, LAMBDA h : HasContent(h.source))

\* the position in its run of the chunk a bridge message was built from
OrdinalOf(m) == m.name[2] - 1

\* C1: transform yields exactly one Episode for a record with content and
\* none for a record without.  In the bridge, after transform_to_messages
\* every chunk with content has exactly one message, every other chunk has
\* none, and there are as many messages as chunks with content; in the
\* celery task the chunks the loop has visited with content are exactly the
\* ones an Episode was built for, once each and in order, and a run that
\* returns True built as many Episodes as there are chunks with content.
C1_OneEpisodePerRecordWithContent ==
  /\ (prog = "bridge" /\ (pc = "send" \/ messages # <<>>)) =>
       /\ Len(messages) = Len(WithContent(chunks))
       /\ \A i \in 1..Len(chunks) :
            Cardinality({ k \in 1..Len(messages) : OrdinalOf(messages[k]) = i - 1 })
              = (IF HasContent(chunks[i].source) THEN 1 ELSE 0)
  /\ (prog = "celery" /\ pc \in {"ingest", "done"}) =>
       LET visited == IF lastStatus.kind = "error" THEN idx + 1 ELSE idx
       IN  Handed = HitIds(WithContent(SubSeq(chunks, 1, visited)))
  /\ (prog = "celery" /\ result = "True") =>
       Len(graph) = Len(WithContent(chunks))

\* C1 witness: the bridge has transformed three chunks, one of them empty
C1_Witness ==
  /\ prog = "bridge" /\ pc = "send"
  /\ Len(chunks) = 3 /\ Len(messages) = 2

\* C2: a record with the same (doc_id, ordinal) gets the same Episode id in
\* two runs, whatever its other fields and whatever the time of each run;
\* a record without doc_id gets the id built from 'unknown'.
C2_SameIdInBothRuns ==
  pc = "done" =>
    /\ \A a \in 1..Len(prevMessages), b \in 1..Len(messages) :
         LET m1 == prevMessages[a]
             m2 == messages[b]
         IN  ( /\ OrdinalOf(m1) = OrdinalOf(m2)
               /\ prevChunks[OrdinalOf(m1) + 1].source.doc_id
                    = chunks[OrdinalOf(m2) + 1].source.doc_id )
             => m1.uuid = m2.uuid
    /\ \A b \in 1..Len(messages) :
         chunks[OrdinalOf(messages[b]) + 1].source.doc_id = Absent
           => messages[b].uuid = <<"ragflow_chunk", "unknown", OrdinalOf(messages[b])>>

\* C2 witness: the two runs ran at different times and built, at the same
\* ordinal, Episodes of the same doc_id with different contents; and one of
\* the records has no doc_id
C2_Witness ==
  /\ pc = "done" /\ prevNow # now
  /\ \E a \in 1..Len(prevMessages), b \in 1..Len(messages) :
       /\ OrdinalOf(prevMessages[a]) = OrdinalOf(messages[b])
       /\ prevChunks[OrdinalOf(prevMessages[a]) + 1].source.doc_id = "d1"
       /\ chunks[OrdinalOf(messages[b]) + 1].source.doc_id = "d1"
       /\ prevMessages[a].content # messages[b].content
       /\ prevMessages[a].uuid = messages[b].uuid
  /\ \E b \in 1..Len(messages) :
       chunks[OrdinalOf(messages[b]) + 1].source.doc_id = Absent

\* C3: no two Episodes of a run that carry an id carry the same one (the
\* bridge gives every message an id; run_extraction and sync_ragflow pass
\* none), and no Episode is built with empty content, in the messages or in
\* the graph.
C3_UniqueIdsNoEmptyBody ==
  /\ prog = "bridge" =>
       \A a, b \in 1..Len(messages) :
         /\ messages[a].uuid # NoneT
         /\ a # b => messages[a].uuid # messages[b].uuid
  /\ \A a, b \in 1..Len(graph) :
       (a # b /\ graph[a].group_id = graph[b].group_id /\ graph[a].uuid # NoneT)
         => graph[a].uuid # graph[b].uuid
  /\ \A k \in 1..Len(messages) : messages[k].content # ""
  /\ \A k \in 1..Len(graph) :
       graph[k].episode_body[Len(graph[k].episode_body)] # ""

\* C3 witness: two Episodes built from records of the same doc_id have been
\* ingested for the bridge's group
C3_Witness ==
  /\ prog = "bridge" /\ Len(graph) >= 2
  /\ graph[1].uuid[2] = graph[2].uuid[2]
  /\ graph[1].group_id = graph[2].group_id

RECURSIVE IsSubseq(_, _)
IsSubseq(a, b) ==
  IF a = <<>> THEN TRUE
  ELSE IF b = <<>> THEN FALSE
  ELSE IF Head(a) = Head(b) THEN IsSubseq(Tail(a), Tail(b))
  ELSE IsSubseq(a, Tail(b))

\* C4: the hits handed to the sink, across calls and within each call, are
\* a subsequence of the order Elasticsearch returned them in; and the
\* Episodes in the graph follow the order they were handed over in.
C4_DeliveredInExtractionOrder ==
  /\ IsSubseq(Handed, Extracted)
  /\ prog \in {"bridge", "celery"} =>
       IsSubseq([k \in 1..Len(graph) |-> chunks[graph[k].name[2]].id], Handed)

\* C4 witness: the bridge has sent two batches, the first of two records,
\* and the sink has ingested all three Episodes
C4_Witness ==
  /\ prog = "bridge" /\ Len(sent) = 2 /\ Len(sent[1]) = 2
  /\ Len(graph) = 3

\* number of batches send_to_graphiti cuts n messages into
NumBatches(n, size) == (n + size - 1) \div size

\* C5: when batch delivery has ended, every batch sent but the last has
\* exactly BATCH_SIZE Episodes, none is empty or larger, and the batches
\* sent, concatenated in sending order, are the input list.
C5_BatchesPartitionTheInput ==
  (prog = "bridge" /\ pc = "done" /\ attempted > 0) =>
    /\ \A k \in 1..Len(sent) :
         /\ Len(sent[k]) \in 1..BATCH_SIZE
         /\ k < Len(sent) => Len(sent[k]) = BATCH_SIZE
    /\ Handed = BridgeHitIds(messages)

\* C6: a failed batch is recorded and delivery goes on with the next batch:
\* when batch delivery has ended every one of the M batches was attempted
\* exactly once, and succeeded + failed = M.
C6_EveryBatchAttemptedOnce ==
  (prog = "bridge" /\ pc = "done" /\ attempted > 0) =>
    /\ attempted = NumBatches(Len(messages), BATCH_SIZE)
    /\ succeeded + failed = NumBatches(Len(messages), BATCH_SIZE)
    /\ Handed = BridgeHitIds(messages)

\* an Elasticsearch request of the run raised, or the listing came back empty
ExtractionFailed ==
  \E k \in 1..Len(esReqs) :
    \/ ~esReqs[k].ok
    \/ esReqs[k].op = "get_alias" /\ esReqs[k].got = 0

\* C7: the task's boolean outcome is True exactly when extraction did not
\* fail, however many deliveries failed (for the celery task: once its
\* graph client exists).
C7_SuccessIffExtractionSucceeded ==
  ( /\ pc = "done"
    /\ prog \in {"kgtask", "celery"}
    /\ (prog = "celery" /\ ~ExtractionFailed) => client # "none" ) =>
  (result = "True" <=> ~ExtractionFailed)

\* the page fetches of the run, in order
Fetches == SelectSeq(esReqs, LAMBDA r : r.op \in {"search", "scroll"})

RECURSIVE SumGot(_)
SumGot(rs) == IF rs = <<>> THEN 0 ELSE Head(rs).got + SumGot(Tail(rs))

\* C8: no page is requested after the first empty one, the records
\* extracted are exactly the sum of the page sizes, and a run that goes on
\* to deliver (or returns True) has paged through to the empty page.
C8_PaginationExhaustion ==
  /\ \A k \in 1..Len(Fetches) :
       (Fetches[k].ok /\ Fetches[k].got = 0) => k = Len(Fetches)
  /\ prog \in {"bridge", "celery"} => Len(chunks) = SumGot(Fetches)
  /\ ( \/ prog = "bridge" /\ pc = "send"
       \/ prog = "celery" /\ pc = "ingest"
       \/ prog = "kgtask" /\ result = "True" ) =>
       /\ Len(Fetches) > 0
       /\ Fetches[Len(Fetches)].ok /\ Fetches[Len(Fetches)].got = 0
       /\ SumGot(Fetches) = Len(esDocs)

\* C8 witness: pages of 2, 1 and 0 hits gave the bridge 3 chunks in 3 fetches
C8_Witness ==
  /\ prog = "bridge" /\ pc = "send"
  /\ Len(Fetches) = 3
  /\ Fetches[1].got = 2 /\ Fetches[2].got = 1 /\ Fetches[3].got = 0
  /\ Len(chunks) = 3

\* C9: a run in which a page fetch raised ends reporting failure: it never
\* logs completion and never returns success.
C9_ExtractionFailureIsFatal ==
  ( /\ pc = "done"
    /\ \E k \in 1..Len(Fetches) : ~Fetches[k].ok ) =>
  /\ "completed" \notin logged
  /\ result \notin {"True", "exit0"}

\* C10: when the index selector resolves to no index, no search or scroll
\* request and no delivery call is ever issued, and the run ends reporting
\* failure.
C10_NoIndexNoRequests ==
  TargetIndex(argIndex, esIndices) = Absent =>
    /\ Fetches = <<>>
    /\ attempted = 0
    /\ pc = "done" => (result \notin {"True", "exit0"} /\ "completed" \notin logged)

\* the place of an index name in lexical (string) order
LexRank(name) ==
  CASE name = "ragflow_a" -> 1
    [] name = "ragflow_b" -> 2
    [] OTHER              -> 3

LexFirst(names) == CHOOSE n \in names : \A m \in names : LexRank(n) <= LexRank(m)

\* C11: a run that resolves the ragflow_* selector itself reads the
\* lexically first of the matching index names, in whatever order the
\* alias listing names them.
C11_LexicallyFirstIndex ==
  ( /\ prog \in {"bridge", "celery", "kgtask"}
    /\ argIndex = Absent
    /\ index_name # Absent ) =>
  index_name = LexFirst(Range(esIndices))

\* ------------------------------------- redelivery to a deduplicating sink
\* A sink that deduplicates by id: an Episode whose id the graph already
\* holds changes nothing; any other Episode, one without an id included, is
\* stored as a new Episode.
DedupAdd(g, ep) ==
  IF ep.uuid # NoneT /\ \E k \in 1..Len(g) : g[k].uuid = ep.uuid
  THEN g
  ELSE Append(g, ep)

RECURSIVE DedupAddAll(_, _)
DedupAddAll(g, eps) ==
  IF eps = <<>> THEN g ELSE DedupAddAll(DedupAdd(g, Head(eps)), Tail(eps))

\* the add_episode calls of process_ingestion for chunks cs from position i on
RECURSIVE CeleryEpisodesFrom(_, _, _, _)
CeleryEpisodesFrom(group_id, cs, i, t) ==
  IF i >= Len(cs) THEN <<>>
  ELSE (IF ContentWithFallback(cs[i + 1].source) = "" THEN <<>>
        ELSE <<CeleryEpisode(group_id, cs[i + 1], i, t)>>)
       \o CeleryEpisodesFrom(group_id, cs, i + 1, t)

\* the add_episode calls add_messages makes for a request
RequestEpisodes(group_id, msgs) ==
  [k \in 1..Len(msgs) |-> EpisodeOf(group_id, msgs[k])]

\* the Episodes each delivery path hands the graph for the chunks cs
PathEpisodes(p, cs, t) ==
  CASE p = "bridge"  -> RequestEpisodes(GroupId(p), transform_to_messages(cs, t))
    [] p = "extract" -> RequestEpisodes(GroupId(p), ExtractMessages(cs))
    [] OTHER         -> CeleryEpisodesFrom(GroupId(p), cs, 0, t)

DeliveryPaths == {"bridge", "extract", "celery"}

InitRedeliver ==
  /\ prog \in DeliveryPaths
  /\ pc = "build"
  /\ result = "running"
  /\ esIndices = <<"ragflow_a">>
  /\ argIndex = Absent
  /\ esDocs = <<>>
  /\ esPos = 0
  /\ esReqs = <<>>
  /\ index_name = "ragflow_a"
  /\ hits = <<>>
  /\ chunks \in RunDocLists
  /\ prevChunks = <<>>
  /\ now \in 0..MaxClock
  /\ prevNow = 0
  /\ messages = <<>>
  /\ prevMessages = <<>>
  /\ idx = 0
  /\ BATCH_SIZE = 1
  /\ total_processed = 0
  /\ graph = <<>>
  /\ sent = <<>>
  /\ attempted = 0
  /\ succeeded = 0
  /\ accepted = 0
  /\ failed = 0
  /\ lastStatus = [kind |-> "none", code |-> 0, counted |-> FALSE]
  /\ logged = {}
  /\ slept = 0
  /\ client = "none"
  /\ closes = 0
  /\ episodes = <<>>
  /\ graphAfterFirst = <<>>
  /\ ServiceIdle

redeliverFixed == <<esVars, clientVars, histVars, prog, result, esPos, esReqs,
                    index_name, hits, chunks, messages, idx, BATCH_SIZE,
                    total_processed, now, logged, prevChunks, prevMessages,
                    prevNow, serviceVars>>

\* the path builds the Episodes of its batch
Redeliver_Build ==
  /\ pc = "build"
  /\ episodes' = PathEpisodes(prog, chunks, now)
  /\ pc' = "first"
  /\ UNCHANGED <<redeliverFixed, graph, graphAfterFirst>>

\* the batch is delivered
Redeliver_First ==
  /\ pc = "first"
  /\ graph' = DedupAddAll(graph, episodes)
  /\ graphAfterFirst' = graph'
  /\ pc' = "second"
  /\ UNCHANGED <<redeliverFixed, episodes>>

\* the same batch is delivered again
Redeliver_Second ==
  /\ pc = "second"
  /\ graph' = DedupAddAll(graph, episodes)
  /\ pc' = "done"
  /\ UNCHANGED <<redeliverFixed, episodes, graphAfterFirst>>

NextRedeliver ==
  \/ Redeliver_Build
  \/ Redeliver_First
  \/ Redeliver_Second

SpecRedeliver == InitRedeliver /\ [][NextRedeliver]_vars

\* C12: every Episode a path delivers carries an id, and after the same
\* batch has been delivered a second time to a sink that deduplicates by id
\* the graph is what it was after the first delivery.
C12_RedeliveryIsIdempotent ==
  /\ \A k \in 1..Len(episodes) : episodes[k].uuid # NoneT
  /\ pc = "done" => graph = graphAfterFirst

\* the sink answered the latest delivery call with a 2xx status
Answered2xx == lastStatus.kind = "http" /\ lastStatus.code \in 200..299

\* C13: a delivery call over HTTP is counted as succeeded exactly when the
\* sink answered it with a 2xx status (202 included); any other status and
\* a call that raised are counted as failed, and every call is counted.
C13_SuccessIs2xx ==
  (prog \in {"bridge", "extract", "kgtask", "kgtool"} /\ attempted > 0) =>
    /\ lastStatus.counted <=> Answered2xx
    /\ succeeded + failed = attempted

\* the Episodes of the latest delivery call
LastBatchLen == Len(sent[Len(sent)])

\* C14: a batch is ingested whole or not at all.  After any delivery call
\* to /messages the graph holds every Episode of each batch the sink
\* acknowledged and none of a batch that failed: for the bridge (whose
\* earlier batches all succeeded) and for run_extraction (whose
\* total_processed adds up the acknowledged batches).
C14_BatchIsAtomic ==
  /\ (prog = "bridge" /\ attempted > 0) =>
       Len(graph) = (IF lastStatus.counted THEN Len(Handed)
                     ELSE Len(Handed) - LastBatchLen)
  /\ (prog = "extract" /\ attempted > 0) =>
       Len(graph) = total_processed

\* --------------------------------- utils/model_factory.py ModelFactory
\* A Python dict is the sequence of its (key, value) items in insertion
\* order; keys are distinct.
Keys(d) == { d[i][1] : i \in 1..Len(d) }

Lookup(d, key) == (CHOOSE i \in 1..Len(d) : d[i][1] = key)

ValueAt(d, key) == d[Lookup(d, key)][2]

RESERVED_FIELDS ==
  { "uuid", "name", "group_id", "labels", "created_at", "summary", "fact",
    "source_node_uuid", "target_node_uuid", "episodes", "valid_at",
    "invalid_at", "expired_at" }

\* str.lower() on the strings of the model
Lower(s) ==
  CASE s = "Bool" -> "bool"
    [] s = "Uuid" -> "uuid"
    [] OTHER      -> s

\* (a slip the code could have made: the reserved names are matched
\* whatever their case)
IsReservedIgnoringCase(attr_name) == Lower(attr_name) \in RESERVED_FIELDS

\* `attr_name in cls.RESERVED_FIELDS`
IsReserved(attr_name) == attr_name \in RESERVED_FIELDS

\* (a slip the code could have made: type_map.get without its default)
map_type_no_default(type_str) ==
  LET t == Lower(type_str)
  IN  CASE t = "string" -> "str"
        [] t = "float"  -> "float"
        [] t = "int"    -> "int"
        [] t = "bool"   -> "bool"
        [] t = "number" -> "float"
        [] OTHER        -> PyNone

\* _map_type: type_map.get(type_str.lower(), str)
map_type(type_str) ==
  LET t == Lower(type_str)
  IN  CASE t = "string" -> "str"
        [] t = "float"  -> "float"
        [] t = "int"    -> "int"
        [] t = "bool"   -> "bool"
        [] t = "number" -> "float"
        [] OTHER        -> "str"

\* lines 55-62: (Optional[attr_type], Field(default=None, description=attr_desc))
FieldOf(attr_def) ==
  [ type        |-> <<"Optional", map_type(Get(attr_def, "type", "string"))>>,
    default     |-> PyNone,
    description |-> Get(attr_def, "description", "") ]

\* lines 49-62: the for loop over attributes.items(), from item i on
RECURSIVE FieldsFrom(_, _)
FieldsFrom(attributes, i) ==
  IF i > Len(attributes) THEN <<>>
  ELSE (IF IsReserved(attributes[i][1]) THEN <<>>
        ELSE << <<attributes[i][1], FieldOf(attributes[i][2])>> >>)
       \o FieldsFrom(attributes, i + 1)

\* f"Custom {type_name} definition."
DefaultSummary(type_name) == <<"Custom ", type_name, " definition.">>

\* (a slip the code could have made: the given summary is never read)
SummaryAlwaysDefault(type_name, definition) == DefaultSummary(type_name)

\* summary = definition.get("summary", f"Custom {type_name} definition.")
SummaryOf(type_name, definition) ==
  GetOr(definition.summary, DefaultSummary(type_name))

\* lines 46-72: the model class built for one type
ModelOf(type_name, definition) ==
  [ name   |-> type_name,
    doc    |-> SummaryOf(type_name, definition),
    fields |-> FieldsFrom(GetOr(definition.attributes, <<>>), 1) ]

\* lines 45-74: the for loop over the items of type_definitions
ModelsOf(items) ==
  [ i \in 1..Len(items) |->
      <<items[i][1], ModelOf(items[i][1], items[i][2])>> ]

\* `not type_definitions`
NoDefinitions(type_definitions_) ==
  ~type_definitions_.given \/ type_definitions_.value = <<>>

\* (a slip the code could have made: an empty result for an empty input)
create_models_never_none(type_definitions_) ==
  IF NoDefinitions(type_definitions_) THEN Some(<<>>)
  ELSE Some(ModelsOf(type_definitions_.value))

\* ModelFactory.create_models
create_models(type_definitions_) ==
  IF NoDefinitions(type_definitions_) THEN Missing
  ELSE Some(ModelsOf(type_definitions_.value))

\* most attributes a type definition of the model declares
MaxAttrs == 1

\* attribute names: a reserved one, the same in another case, a free one
AttrNames == {"uuid", "Uuid", "age"}

\* attribute definitions: {type?: string, description?: string}
AttrDefs ==
  { [type |-> Absent,   description |-> Absent],
    [type |-> "Bool",   description |-> "d"],
    [type |-> "number", description |-> "d"],
    [type |-> "date",   description |-> Absent] }

TypeNames == {"Person", "Org"}

\* the dicts of at most n items with keys in K and values in V
DictsUpTo(K, V, n) ==
  { d \in SeqsUpTo(K \X V, n) : IsDupFree([i \in 1..Len(d) |-> d[i][1]]) }

\* type definitions: {summary?: string, attributes?: {...}}
Definitions ==
  { [summary |-> s, attributes |-> a] :
      s \in {Missing, Some(<<"A person">>)},
      a \in {Missing} \cup { Some(d) : d \in DictsUpTo(AttrNames, AttrDefs, MaxAttrs) } }

OntologyDefinitions == DictsUpTo(TypeNames, Definitions, Cardinality(TypeNames))

\* pipeline state of a specification that runs no pipeline
PipelineIdle ==
  /\ prog = "bridge"
  /\ result = "running"
  /\ esIndices = <<"ragflow_a">>
  /\ argIndex = Absent
  /\ esDocs = <<>>
  /\ esPos = 0
  /\ esReqs = <<>>
  /\ index_name = "ragflow_a"
  /\ hits = <<>>
  /\ chunks = <<>>
  /\ prevChunks = <<>>
  /\ now = 0
  /\ prevNow = 0
  /\ messages = <<>>
  /\ prevMessages = <<>>
  /\ idx = 0
  /\ BATCH_SIZE = 1
  /\ total_processed = 0
  /\ graph = <<>>
  /\ sent = <<>>
  /\ attempted = 0
  /\ succeeded = 0
  /\ accepted = 0
  /\ failed = 0
  /\ lastStatus = [kind |-> "none", code |-> 0, counted |-> FALSE]
  /\ logged = {}
  /\ slept = 0
  /\ client = "none"
  /\ closes = 0
  /\ episodes = <<>>
  /\ graphAfterFirst = <<>>

pipelineVars == <<esVars, clientVars, histVars, prog, result, esPos, esReqs,
                  index_name, hits, chunks, messages, idx, BATCH_SIZE,
                  total_processed, now, graph, logged, prevChunks,
                  prevMessages, prevNow, episodes, graphAfterFirst>>

\* create_models is about to be called with None, {} or a definition
InitFactory ==
  /\ PipelineIdle
  /\ pc = "build"
  /\ type_definitions \in {Missing} \cup { Some(d) : d \in OntologyDefinitions }
  /\ models = Missing
  /\ provisioned = {}
  /\ written = [t \in Tenants |-> 0]
  /\ edge_type_map = Missing
  /\ parsed_edge_type_map = Missing
  /\ response = 0

Factory_CreateModels ==
  /\ pc = "build"
  /\ models' = create_models(type_definitions)
  /\ pc' = "done"
  /\ UNCHANGED <<pipelineVars, type_definitions, tenantVars, requestVars>>

NextFactory == Factory_CreateModels

SpecFactory == InitFactory /\ [][NextFactory]_vars

\* create_models has returned a mapping
Built == pc = "done" /\ models.given

\* the attributes the definition of the i-th type declares
AttributesAt(i) == GetOr(type_definitions.value[i][2].attributes, <<>>)

\* C15: no model has a field named by a reserved name, and every attribute
\* whose name is not exactly a reserved name (a reserved name in another
\* case included) is a field of its model.
C15_ReservedFieldsExcluded ==
  Built =>
    \A i \in 1..Len(models.value) :
      /\ Keys(models.value[i][2].fields) \cap RESERVED_FIELDS = {}
      /\ Keys(models.value[i][2].fields) = Keys(AttributesAt(i)) \ RESERVED_FIELDS

\* C15 witness: one type declared the reserved "uuid" and got no field,
\* another declared "Uuid" and got it
C15_Witness ==
  /\ Built /\ Len(models.value) = 2
  /\ \E i, j \in 1..2 :
       /\ Keys(AttributesAt(i)) = {"uuid"} /\ models.value[i][2].fields = <<>>
       /\ Keys(AttributesAt(j)) = {"Uuid"} /\ Keys(models.value[j][2].fields) = {"Uuid"}

\* the type strings _map_type knows, compared in lower case
KnownTypes == {"string", "float", "int", "bool", "number"}

\* C16: a field whose attribute has no type, or a type string that is not a
\* known one, is string-typed; and every field is Optional with default
\* None, whatever its type.
C16_UnknownTypeIsOptionalString ==
  Built =>
    \A i \in 1..Len(models.value) :
      \A j \in 1..Len(models.value[i][2].fields) :
        LET field == models.value[i][2].fields[j][2]
            attr_def == ValueAt(AttributesAt(i), models.value[i][2].fields[j][1])
        IN  /\ (attr_def.type = Absent \/ Lower(attr_def.type) \notin KnownTypes)
                 => field.type[2] = "str"
            /\ field.type[1] = "Optional"
            /\ field.default = PyNone

\* C16 witness: a field of the unknown type "date" and a field without a
\* type have been built
C16_Witness ==
  /\ Built
  /\ \E i, k \in 1..Len(models.value) :
       /\ Len(AttributesAt(i)) = 1 /\ AttributesAt(i)[1][2].type = "date"
       /\ Len(models.value[i][2].fields) = 1
       /\ Len(AttributesAt(k)) = 1 /\ AttributesAt(k)[1][2].type = Absent
       /\ Len(models.value[k][2].fields) = 1

\* C17: create_models returns None for None and for an empty mapping, and
\* otherwise one model per type name of the input, keyed by that name.
C17_NoneOrOneModelPerType ==
  pc = "done" =>
    IF ~type_definitions.given \/ type_definitions.value = <<>>
    THEN models = Missing
    ELSE /\ models.given
         /\ Len(models.value) = Len(type_definitions.value)
         /\ Keys(models.value) = Keys(type_definitions.value)
         /\ \A i \in 1..Len(models.value) : models.value[i][2].name = models.value[i][1]

\* C17 witness: two types went in and two models came out
C17_Witness == Built /\ Len(type_definitions.value) = 2 /\ Len(models.value) = 2

\* the documentation of each model is the given summary, or `default`
\* rendered for the type name when the definition has no summary
DocumentedWith(default) ==
  Built =>
    \A i \in 1..Len(models.value) :
      LET definition == type_definitions.value[i][2]
      IN  models.value[i][2].doc =
            (IF definition.summary.given THEN definition.summary.value
             ELSE <<"Custom ", models.value[i][1], default>>)

\* C18: the documentation is the summary when the definition has one, and
\* "Custom <type_name> definition" when it has none.
C18_SummaryOrDefaultDoc == DocumentedWith(" definition")

\* C18 as amended: the generated default ends with a full stop,
\* "Custom <type_name> definition."
C18_SummaryOrDefaultDocWithStop == DocumentedWith(" definition.")

\* C18 witness: one model documented by its summary, one by the default
C18_Witness ==
  /\ Built /\ Len(models.value) = 2
  /\ type_definitions.value[1][2].summary.given
  /\ ~type_definitions.value[2][2].summary.given
  /\ models.value[2][2].doc[2] = models.value[2][1]

\* ------------------------- routers/webhooks.py and routers/ingest.py requests
\* most Episodes the model writes to one partition
MaxWritten == 2

\* the graph service is up and has been asked nothing yet
InitTenants ==
  /\ PipelineIdle
  /\ pc = "serving"
  /\ ServiceIdle

\* POST /user-created: a payload without data.new.id is ignored; otherwise
\* the driver is cloned for database=user_id and its indices and
\* constraints are built, unless that raises
UserCreated ==
  /\ pc = "serving"
  /\ \E user_id \in Tenants \cup {Absent}, built \in BOOLEAN :
       provisioned' = (IF user_id # Absent /\ built
                       THEN provisioned \cup {user_id}
                       ELSE provisioned)
  /\ UNCHANGED <<pipelineVars, pc, factoryVars, requestVars, written>>

\* POST /messages for group_id: add_episode is awaited for each message in
\* turn; n of them return before one raises (all of them when none does)
AddMessagesTo ==
  /\ pc = "serving"
  /\ \E group_id \in Tenants, n \in 0..MaxWritten :
       /\ written[group_id] + n <= MaxWritten
       /\ written' = [written EXCEPT ![group_id] = @ + n]
  /\ UNCHANGED <<pipelineVars, pc, factoryVars, requestVars, provisioned>>

NextTenants ==
  \/ UserCreated
  \/ AddMessagesTo

SpecTenants == InitTenants /\ [][NextTenants]_vars

\* C19: no Episode is ever written to a partition the user-created webhook
\* has not provisioned: a partition that holds Episodes has had its indices
\* and constraints built.
C19_ProvisionedBeforeIngestion ==
  \A t \in Tenants : written[t] > 0 => t \in provisioned

\* C20: end to end.  The bridge, with batch size 1, over an index of N
\* documents that all have content, once extraction has gone through:
\* exactly N delivery calls were issued, the k-th carrying the one Episode
\* of the k-th document, and every Episode ingested carries the configured
\* group_id and the rendered content of its document.
C20_EndToEndOneCallPerDocument ==
  ( /\ prog = "bridge" /\ BATCH_SIZE = 1 /\ pc = "done"
    /\ ~ExtractionFailed
    /\ \A k \in 1..Len(esDocs) : HasContent(esDocs[k].source) ) =>
  /\ sent = [k \in 1..Len(esDocs) |-> <<k>>]
  /\ \A k \in 1..Len(graph) :
       /\ graph[k].group_id = GroupId("bridge")
       /\ graph[k].episode_body =
            <<"RAGFlow RAPTOR Chunk", "system", ContentWithFallback(esDocs[k].source)>>

\* the text of a record: its primary field, or its fallback field when the
\* primary one is empty or missing
TextOf(source) ==
  IF source.content_with_weight \notin {Absent, ""}
  THEN source.content_with_weight
  ELSE source.content

\* the records the per-record loops have gone through so far
RecordsDone == SubSeq(esDocs, 1, esPos - Len(hits) + idx)

\* C21: on every sync path a record is delivered with its primary text, or
\* its fallback text when the primary field is empty or missing, and is
\* skipped only when both are empty: the records handed to the sink are
\* exactly the records gone through that have content in either field.
C21_FallbackOnEveryPath ==
  /\ prog = "bridge" =>
       \A k \in 1..Len(messages) :
         messages[k].content = TextOf(chunks[OrdinalOf(messages[k]) + 1].source)
  /\ (prog = "extract" /\ pc = "next") =>
       Handed = HitIds(WithContent(SubSeq(esDocs, 1, esPos)))
  /\ (prog \in {"kgtask", "kgtool"} /\ pc = "page") =>
       Handed = HitIds(WithContent(RecordsDone))

\* C22: in the per-record syncs every delivery call is followed by one
\* delay step, whether it succeeded or failed, and a record skipped for
\* empty content causes none: the delay steps made are exactly the
\* delivery calls made.
C22_DelayAfterEveryDelivery ==
  prog \in {"kgtask", "kgtool"} => slept = attempted

\* C22 witness: three records gone through, one of them skipped, one
\* delivery counted and one failed, two delay steps
C22_Witness ==
  /\ prog = "kgtask" /\ pc = "page"
  /\ Len(RecordsDone) = 3
  /\ succeeded = 1 /\ failed = 1 /\ slept = 2

\* C23: extraction neither loses nor duplicates records.  The extracted
\* list is at every step the pages served so far, in fetch order, each hit
\* once; once extraction has completed it is the whole index; and every
\* scroll request passes the scroll id of the response just before it.
C23_NoLossNoDuplication ==
  /\ prog \in {"bridge", "celery"} =>
       /\ chunks = SubSeq(esDocs, 1, esPos)
       /\ IsDupFree(HitIds(chunks))
  /\ ( \/ prog = "bridge" /\ pc = "send"
       \/ prog = "celery" /\ pc = "ingest" ) => chunks = esDocs
  /\ \A k \in 1..Len(esReqs) :
       esReqs[k].op = "scroll" =>
         /\ k > 1
         /\ esReqs[k - 1].ok /\ esReqs[k - 1].op \in {"search", "scroll"}
         /\ esReqs[k].used = esReqs[k - 1].gave

\* C23 witness: the task has read three records in pages of one, passing a
\* new scroll id each time
C23_Witness ==
  /\ prog = "celery" /\ pc = "ingest"
  /\ Len(Fetches) = 4 /\ Len(chunks) = 3
  /\ Fetches[4].used # Fetches[2].used


\* ------------------------------------------- add_messages: edge_type_map
\* A key of request.edge_type_map is modelled by what signature.split(":")
\* returns for it: the tuple of its parts, one part more than it has colons.
MaxEdgeKeys == 2

Signatures ==
  { <<"Person">>, <<"Person", "Org">>, <<" Person ", "Org">>,
    <<"Person", "Org", "Site">> }

EdgeTypeLists == { <<"WORKS_AT">>, <<"OWNS">> }

EdgeTypeMaps == DictsUpTo(Signatures, EdgeTypeLists, MaxEdgeKeys)

\* str.strip() on the strings of the model
Strip(s) == IF s = " Person " THEN "Person" ELSE s

\* ":" in signature
HasColon(signature) == Len(signature) >= 2

\* source, target = signature.split(":") raises ValueError unless the split
\* has exactly two parts
UnpacksIntoTwo(signature) == Len(signature) = 2

\* d[key] = value on a Python dict: a key already there keeps its place
DictSet(d, key, value) ==
  IF key \in Keys(d) THEN [d EXCEPT ![Lookup(d, key)] = <<key, value>>]
  ELSE Append(d, <<key, value>>)

\* the for loop over request.edge_type_map.items() from item i on, acc being
\* parsed_edge_type_map so far: the map parsed, the keys warned about, and
\* whether the unpacking raised
RECURSIVE ParseFrom(_, _, _, _)
ParseFrom(items, i, acc, warned) ==
  IF i > Len(items) THEN [raised |-> FALSE, parsed |-> acc, warned |-> warned]
  ELSE LET signature == items[i][1]
           types     == items[i][2]
       IN  IF ~HasColon(signature)
           THEN ParseFrom(items, i + 1, acc, warned \cup {signature})
           ELSE IF ~UnpacksIntoTwo(signature)
           THEN [raised |-> TRUE, parsed |-> acc, warned |-> warned]
           ELSE ParseFrom(items, i + 1,
                          DictSet(acc, <<Strip(signature[1]), Strip(signature[2])>>, types),
                          warned)

\* parsed_edge_type_map = None; if request.edge_type_map: ... (an empty
\* dict is falsy)
ParseEdgeTypeMap(m) ==
  IF ~m.given \/ m.value = <<>>
  THEN [raised |-> FALSE, parsed |-> Missing, warned |-> {}]
  ELSE LET r == ParseFrom(m.value, 1, <<>>, {})
       IN  [raised |-> r.raised, parsed |-> Some(r.parsed), warned |-> r.warned]

\* A POST /messages request is about to be handled: its messages and its
\* edge_type_map.
InitRequest ==
  /\ prog = "bridge"
  /\ pc = "request"
  /\ result = "running"
  /\ esIndices = <<"ragflow_a">>
  /\ argIndex = Absent
  /\ esDocs = <<>>
  /\ esPos = 0
  /\ esReqs = <<>>
  /\ index_name = "ragflow_a"
  /\ hits = <<>>
  /\ chunks = <<>>
  /\ prevChunks = <<>>
  /\ now = 0
  /\ prevNow = 0
  /\ messages \in { transform_to_messages(cs, 0) : cs \in RunDocLists }
  /\ prevMessages = <<>>
  /\ idx = 0
  /\ BATCH_SIZE = 1
  /\ total_processed = 0
  /\ graph = <<>>
  /\ sent = <<>>
  /\ attempted = 0
  /\ succeeded = 0
  /\ accepted = 0
  /\ failed = 0
  /\ lastStatus = [kind |-> "none", code |-> 0, counted |-> FALSE]
  /\ logged = {}
  /\ slept = 0
  /\ client = "none"
  /\ closes = 0
  /\ episodes = <<>>
  /\ graphAfterFirst = <<>>
  /\ type_definitions = Missing
  /\ models = Missing
  /\ provisioned = {}
  /\ written = [t \in Tenants |-> 0]
  /\ edge_type_map \in {Missing} \cup { Some(d) : d \in EdgeTypeMaps }
  /\ parsed_edge_type_map = Missing
  /\ response = 0

\* add_messages, whole handler: the map is parsed, then add_episode is
\* called for the messages in order; an exception anywhere is answered with
\* 500.  attempted counts the add_episode calls made.
Request_AddMessages ==
  /\ pc = "request"
  /\ pc' = "done"
  /\ LET r == ParseEdgeTypeMap(edge_type_map)
     IN  /\ logged' = logged \cup { <<"Invalid edge_type_map signature", s>> : s \in r.warned }
         /\ IF r.raised
            THEN /\ parsed_edge_type_map' = Missing
                 /\ response' = 500
                 /\ UNCHANGED <<graph, attempted>>
            ELSE /\ parsed_edge_type_map' = r.parsed
                 /\ \E n \in 0..Len(messages) :
                      /\ graph' = AddMessages(graph, GroupId(prog), messages, n)
                      /\ attempted' = Min(n + 1, Len(messages))
                      /\ response' = AddMessagesStatus(messages, n)
  /\ UNCHANGED <<esVars, clientVars, sent, succeeded, failed, accepted, lastStatus,
                 prog, result, esPos, esReqs, index_name, hits, chunks,
                 messages, idx, BATCH_SIZE, total_processed, now, prevChunks,
                 prevMessages, prevNow, episodes, graphAfterFirst,
                 factoryVars, tenantVars, edge_type_map>>

NextRequest == Request_AddMessages

SpecRequest == InitRequest /\ [][NextRequest]_vars

\* the keys of the request's map, none when there is no map
RequestSignatures ==
  IF edge_type_map.given THEN Keys(edge_type_map.value) ELSE {}

\* C24: add_messages never fails because of the contents of edge_type_map.
\* Once the handler has answered: every key with a colon has its entry
\* (trimmed source, trimmed target) -> its types in the parsed map, every
\* key without a colon has no entry and was warned about, a missing or empty
\* map gives no parsed map, and in every case the ingestion loop was
\* entered: add_episode was called for the first message of the request.
C24_EdgeTypeMapNeverFails ==
  pc = "done" =>
    /\ \A s \in RequestSignatures :
         IF HasColon(s)
         THEN /\ parsed_edge_type_map.given
              /\ <<Strip(s[1]), Strip(s[2])>> \in Keys(parsed_edge_type_map.value)
              /\ ValueAt(parsed_edge_type_map.value, <<Strip(s[1]), Strip(s[2])>>)
                   = ValueAt(edge_type_map.value, s)
         ELSE <<"Invalid edge_type_map signature", s>> \in logged
    /\ parsed_edge_type_map.given =>
         \A k \in Keys(parsed_edge_type_map.value) :
           \E s \in RequestSignatures :
             HasColon(s) /\ k = <<Strip(s[1]), Strip(s[2])>>
    /\ RequestSignatures = {} => ~parsed_edge_type_map.given
    /\ messages # <<>> => attempted > 0


\* the sync paths that keep a total_processed counter
Counting == {"kgtask", "kgtool", "extract"}

\* records handed to a delivery call so far
RecordsAttempted == Len(Handed)

C25_Bounds ==
  prog \in Counting =>
    /\ total_processed <= RecordsAttempted
    /\ RecordsAttempted <= esPos
    /\ pc = "done" => total_processed = accepted

C25_NeverDecreases == total_processed' >= total_processed

\* C25: progress accounting.  In every state of a sync that keeps the
\* counter, total_processed is at most the number of records whose
\* delivery was attempted, which is at most the number of records read; no
\* step makes total_processed smaller; and when the run has ended
\* total_processed is the number of records with content whose delivery the
\* sink accepted.
C25_ProgressAccounting == []C25_Bounds /\ [][C25_NeverDecreases]_vars


\* C26: the client sync_ragflow opens is closed on every path out of
\* ingestion.  It is open exactly while the loop over the chunks runs and
\* has not been closed then; it is closed in the step that ends the run,
\* once, so that no add_episode call follows close; and after an add_episode
\* call raised the run has ended with the client closed, the failed call
\* being the last one: no later chunk was handed to add_episode and the
\* graph holds the Episodes of the calls before it.
C26_ClientClosedOnce ==
  prog = "celery" =>
    /\ client = "none" => closes = 0
    /\ client = "open" => closes = 0 /\ pc = "ingest"
    /\ client = "closed" => closes = 1 /\ pc = "done"
    /\ lastStatus.kind = "error" =>
         /\ client = "closed" /\ closes = 1 /\ pc = "done"
         /\ failed = 1 /\ attempted = succeeded + 1
         /\ Len(graph) = succeeded
         /\ idx < Len(chunks)
         /\ Handed[Len(Handed)] = chunks[idx + 1].id
         /\ \A k \in (idx + 2)..Len(chunks) : chunks[k].id \notin Range(Handed)

\* add_episode raised on the second of three chunks with content
C26_Witness ==
  /\ prog = "celery" /\ pc = "done"
  /\ client = "closed" /\ closes = 1
  /\ lastStatus.kind = "error"
  /\ succeeded = 1 /\ Len(chunks) = 3 /\ idx = 1
  /\ HasContent(chunks[3].source)

====
